---- MODULE Spec2Model ----
(***************************************************************************)
(* CD2N node administration tool (app.py): the docker-compose loader and   *)
(* writer, and the screen state machine that edits the configuration.      *)
(*                                                                         *)
(* Python values are trees [t, k, s, items]: t is the type, s the text of  *)
(* a scalar as a sequence of one-character strings, items the elements of  *)
(* a list or the key/value pairs of a mapping, k the key of a pair.        *)
(* Python dicts that the program mutates or shares (the service records)   *)
(* live in a heap of objects addressed by references, so that aliasing is  *)
(* visible.  The file is held as the value yaml.safe_load yields from it;  *)
(* yaml.safe_dump followed by yaml.safe_load returns strings, lists,       *)
(* mappings and booleans unchanged.                                        *)
(***************************************************************************)
EXTENDS Integers, Sequences, FiniteSets, TLC

VARIABLES
    file,            \* docker-compose.yml: whether it exists, and its content
    heap,            \* the service-record dicts alive, by reference
    config,          \* CD2N.config: ordered dict, service name -> reference
    pc,              \* where the application is: its top screen, or startup/exit
    service_name,    \* ConfigScreen.service_name
    current_config,  \* ConfigScreen.current_config (a reference; 0 without a screen)
    input_fields,    \* ConfigScreen.input_fields: field -> text of its Input widget
    arg,             \* the dict handed to a direct call of the writer
    last_action,     \* history: the handler that ran last
    last_save,       \* history: how the last call of the writer ended
    pending,         \* history: the edit of a commit whose save raised
    actions          \* history: number of user actions so far

vars == <<file, heap, config, pc, service_name, current_config, input_fields,
          arg, last_action, last_save, pending, actions>>

----------------------------------------------------------------------------
(* Python values *)

Val(t, k, s, items) == [t |-> t, k |-> k, s |-> s, items |-> items]

Str(s) == Val("str", "", s, <<>>)

\* an int scalar, s its decimal text
PyInt(s) == Val("int", "", s, <<>>)

PyTrue == Val("bool", "", <<"T","r","u","e">>, <<>>)

PyNone == Val("none", "", <<"N","o","n","e">>, <<>>)

List(xs) == Val("list", "", <<>>, xs)

Pair(k, v) == Val("pair", k, <<>>, <<v>>)

Map(pairs) == Val("map", "", <<>>, pairs)

\* the outcome of an expression that raised an exception
Raise == Val("raise", "", <<>>, <<>>)

\* a key that a mapping does not hold
Absent == Val("absent", "", <<>>, <<>>)

\* a mapping literal, written with Absent for the keys to leave out
MapOf(pairs) == Map(SelectSeq(pairs, LAMBDA p : p.items[1].t # "absent"))

MapKeys(m) == [i \in 1..Len(m.items) |-> m.items[i].k]

\* dict.get(key, default); AttributeError on a value that is no mapping
Get(m, key, default) ==
    IF m.t # "map" THEN Raise
    ELSE LET hits == {i \in 1..Len(m.items) : m.items[i].k = key}
         IN  IF hits = {} THEN default
             ELSE m.items[CHOOSE i \in hits : \A j \in hits : j <= i].items[1]

\* len(x); TypeError on None and on numbers
PyLen(x) ==
    CASE x.t = "str" -> Len(x.s)
      [] x.t \in {"list", "map"} -> Len(x.items)
      [] OTHER -> -1

\* x[0]
Index0(x) ==
    CASE x.t = "str" /\ Len(x.s) > 0 -> Str(<<x.s[1]>>)
      [] x.t = "list" /\ Len(x.items) > 0 -> x.items[1]
      [] OTHER -> Raise

\* position of the first ':' of s, or Len(s)+1
FirstColon(s) ==
    LET hits == {i \in 1..Len(s) : s[i] = ":"}
    IN  IF hits = {} THEN Len(s) + 1
        ELSE CHOOSE i \in hits : \A j \in hits : i <= j

\* variant of Split0: index 1, the container side
Split0TakesContainerSide(x) ==
    IF x.t # "str" THEN Raise
    ELSE LET rest == SubSeq(x.s, FirstColon(x.s) + 1, Len(x.s))
         IN  Str(SubSeq(rest, 1, FirstColon(rest) - 1))

\* x.split(':')[0]; AttributeError on a value that is no string
Split0(x) ==
    IF x.t # "str" THEN Raise
    ELSE Str(SubSeq(x.s, 1, FirstColon(x.s) - 1))

\* x.split(':')[1]; IndexError on a string without ':'
Split1(x) ==
    IF x.t # "str" THEN Raise
    ELSE LET i == FirstColon(x.s)
             rest == SubSeq(x.s, i + 1, Len(x.s))
         IN  IF i > Len(x.s) THEN Raise
             ELSE Str(SubSeq(rest, 1, FirstColon(rest) - 1))

\* a + b with b a string; TypeError unless a is a string too
Concat(a, b) ==
    IF a.t = "str" /\ b.t = "str" THEN Str(a.s \o b.s) ELSE Raise

RECURSIVE JoinRepr(_)
\* str(x), and repr(x) of the elements of a list
PyStr(x) ==
    CASE x.t \in {"str", "int", "bool", "none"} -> x.s
      [] x.t = "list" -> <<"[">> \o JoinRepr(x.items) \o <<"]">>
      [] x.t = "map" /\ x.items = <<>> -> <<"{","}">>

PyRepr(x) == IF x.t = "str" THEN <<"'">> \o x.s \o <<"'">> ELSE PyStr(x)

JoinRepr(xs) ==
    IF xs = <<>> THEN <<>>
    ELSE IF Len(xs) = 1 THEN PyRepr(xs[1])
    ELSE PyRepr(xs[1]) \o <<","," ">> \o JoinRepr(Tail(xs))

----------------------------------------------------------------------------
(* Ordered dicts of references, and the heap *)

Keys(d) == [i \in 1..Len(d) |-> d[i].k]

KeySet(d) == {d[i].k : i \in 1..Len(d)}

Refs(d) == {d[i].r : i \in 1..Len(d)}

\* d[k]
At(d, k) == (CHOOSE i \in 1..Len(d) : d[i].k = k)

Ref(d, k) == d[At(d, k)].r

\* variant of SetItem: the key assigned moves to the end
SetItemMovesKeyLast(d, k, r) ==
    Append(SelectSeq(d, LAMBDA e : e.k # k), [k |-> k, r |-> r])

\* variant of SetItem: the first key is assigned, whatever k
SetItemUnderFirstKey(d, k, r) ==
    [i \in 1..Len(d) |-> IF i = 1 THEN [k |-> d[i].k, r |-> r] ELSE d[i]]

\* d[k] = r: an existing key keeps its position, a new key goes last
SetItem(d, k, r) ==
    IF k \in KeySet(d)
    THEN [i \in 1..Len(d) |-> IF d[i].k = k THEN [k |-> k, r |-> r] ELSE d[i]]
    ELSE Append(d, [k |-> k, r |-> r])

\* the reference a new object gets: the least one not in use
NewRef(h) ==
    CHOOSE n \in 1..(Cardinality(DOMAIN h) + 1) :
        n \notin DOMAIN h /\ \A m \in 1..(n - 1) : m \in DOMAIN h

\* a new object holding rec
Alloc(h, rec) == (NewRef(h) :> rec) @@ h

\* objects no longer referenced are freed
Collect(h, roots) == [r \in (DOMAIN h \cap roots) |-> h[r]]

\* the dict as a value: service name -> record
Value(d, h) == [k \in KeySet(d) |-> h[Ref(d, k)]]

----------------------------------------------------------------------------
(* DEFAULT_CONFIG *)

\* the module-level dict: its two records are objects 1 and 2
DEFAULT_CONFIG == << [k |-> "justicar", r |-> 1], [k |-> "chain", r |-> 2] >>

DefaultJusticar ==
    ("port" :> Str(<<"1","3","0","9">>)) @@
    ("configuration file" :> Str(<<"/","o","p","t","/","c","d","2","n","/","j","u","s","t","i","c","a","r">>)) @@
    ("name" :> Str(<<"j","u","s","t","i","c","a","r">>))

DefaultChain ==
    ("name" :> Str(<<"c","e","s","s","-","c","h","a","i","n">>)) @@
    ("port" :> Str(<<"9","9","4","4">>)) @@
    ("network" :> Str(<<"t","e","s","t","n","e","t">>)) @@
    ("configuration file" :> Str(<<"/","o","p","t","/","c","d","2","n","/","c","h","a","i","n">>))

\* the heap when the module has been imported
InitialHeap == (1 :> DefaultJusticar) @@ (2 :> DefaultChain)

\* DEFAULT_CONFIG[service_name][field]
Default(h, name, field) == h[Ref(DEFAULT_CONFIG, name)][field]

----------------------------------------------------------------------------
(* load_config_from_docker_compose *)

\* lines 52-53 and 57-58: if len(x) > 0: x = x[0].split(':')[0]
FirstHostSide(x) ==
    IF x.t = "raise" \/ PyLen(x) < 0 THEN Raise
    ELSE IF PyLen(x) > 0 THEN
        (IF Index0(x).t = "raise" THEN Raise ELSE Split0(Index0(x)))
    ELSE x

\* lines 69-72
NetworkOf(h, service_data) ==
    LET image == Get(service_data, "image", PyNone)
    IN  IF image.t # "none" THEN Split1(image) ELSE Default(h, "chain", "network")

\* the body of the loop for one service: the record built, or Raise
LoadedRecord(h, data, name) ==
    LET services == Get(data, "services", Map(<<>>))
        service_data == IF services.t = "raise" THEN Raise
                        ELSE Get(services, name, Map(<<>>))
        ports == IF service_data.t = "raise" THEN Raise
                 ELSE FirstHostSide(Get(service_data, "ports",
                                        Default(h, name, "port")))
        configuration_path ==
            IF ports.t = "raise" THEN Raise
            ELSE FirstHostSide(Get(service_data, "volumes",
                                   Default(h, name, "configuration file")))
        container_name == Get(service_data, "container_name",
                              Default(h, name, "name"))
        network == NetworkOf(h, service_data)
    IN  IF configuration_path.t = "raise" THEN Raise
        ELSE IF name = "justicar" THEN
            ("port" :> ports) @@
            ("configuration file" :> configuration_path) @@
            ("name" :> container_name)
        ELSE IF network.t = "raise" THEN Raise
        ELSE
            ("port" :> ports) @@
            ("configuration file" :> configuration_path) @@
            ("name" :> container_name) @@
            ("network" :> network)

\* line 48: the services the loop visits, in order
LoopKeys == Keys(DEFAULT_CONFIG)

\* lines 42 and 88: DEFAULT_CONFIG.copy(), a new outer dict holding the same
\* record objects
CopyOfDefault(h) == [config |-> DEFAULT_CONFIG, heap |-> h]

RECURSIVE BuildConfig(_, _, _, _)
\* lines 47-85: new_config filled service by service; on an exception the
\* records built so far are dropped and the copy of the defaults is returned
BuildConfig(f, h0, h, done) ==
    IF Len(done) = Len(LoopKeys) THEN [config |-> done, heap |-> h]
    ELSE LET name == LoopKeys[Len(done) + 1]
             rec == LoadedRecord(h0, f.data, name)
         IN  IF rec = Raise THEN CopyOfDefault(h0)
             ELSE BuildConfig(f, h0, Alloc(h, rec),
                              Append(done, [k |-> name, r |-> NewRef(h)]))

\* the dict returned and the heap afterwards
load_config_from_docker_compose(f, h) ==
    IF ~f.exists THEN CopyOfDefault(h)
    ELSE IF f.data.t = "invalid" THEN CopyOfDefault(h)
    ELSE BuildConfig(f, h, h, <<>>)

----------------------------------------------------------------------------
(* save_config_to_docker_compose *)

\* service_config[field]; KeyError when the record lacks the field
Field(service_config, field) ==
    IF field \in DOMAIN service_config THEN service_config[field] ELSE Raise

\* lines 120-148
ChainCommand(chain_id) ==
    List(<< Str(<<"-","-","b","a","s","e","-","p","a","t","h">>), Str(<<"/","o","p","t","/","c","e","s","s","/","d","a","t","a">>),
            Str(<<"-","-","c","h","a","i","n">>), chain_id,
            Str(<<"-","-","p","o","r","t">>), Str(<<"3","0","3","3","6">>),
            Str(<<"-","-","n","a","m","e">>), Str(<<"c","e","s","s">>),
            Str(<<"-","-","r","p","c","-","p","o","r","t">>), Str(<<"9","9","4","4">>),
            Str(<<"-","-","e","x","e","c","u","t","i","o","n">>), Str(<<"W","A","S","M">>),
            Str(<<"-","-","w","a","s","m","-","e","x","e","c","u","t","i","o","n">>), Str(<<"c","o","m","p","i","l","e","d">>),
            Str(<<"-","-","i","n","-","p","e","e","r","s">>), Str(<<"7","5">>),
            Str(<<"-","-","o","u","t","-","p","e","e","r","s">>), Str(<<"7","5">>),
            Str(<<"-","-","r","p","c","-","m","a","x","-","r","e","s","p","o","n","s","e","-","s","i","z","e">>), Str(<<"3","2">>),
            Str(<<"-","-","p","r","u","n","i","n","g">>), Str(<<"a","r","c","h","i","v","e">>),
            Str(<<"-","-","r","p","c","-","e","x","t","e","r","n","a","l">>),
            Str(<<"-","-","r","p","c","-","m","e","t","h","o","d","s">>), Str(<<"u","n","s","a","f","e">>),
            Str(<<"-","-","r","p","c","-","c","o","r","s">>), Str(<<"a","l","l">>) >>)

\* lines 149-155
ChainLogging ==
    Map(<< Pair("driver", Str(<<"j","s","o","n","-","f","i","l","e">>)),
           Pair("options", Map(<< Pair("max-size", Str(<<"3","0","0","m">>)),
                                  Pair("max-file", Str(<<"1","0">>)) >>)) >>)

\* lines 97-112: the justicar service, or Raise
JusticarService(service_config) ==
    LET name == Field(service_config, "name")
        port == Concat(Field(service_config, "port"), Str(<<":","1","3","0","9">>))
        volume == Concat(Field(service_config, "configuration file"),
                         Str(<<":","/","o","p","t","/","j","u","s","t","i","c","a","r","/","b","a","c","k","u","p","s">>))
    IN  IF "raise" \in {name.t, port.t, volume.t} THEN Raise
        ELSE Map(<< Pair("image", Str(<<"c","d","n",":","l","a","t","e","s","t">>)),
                    Pair("container_name", name),
                    Pair("devices",
                         List(<< Str(<<"/","d","e","v","/","s","g","x","_","e","n","c","l","a","v","e",":","/","d","e","v","/","s","g","x","_","e","n","c","l","a","v","e">>),
                                 Str(<<"/","d","e","v","/","s","g","x","_","p","r","o","v","i","s","i","o","n",":","/","d","e","v","/","s","g","x","_","p","r","o","v","i","s","i","o","n">>) >>)),
                    Pair("ports", List(<<port>>)),
                    Pair("volumes", List(<<volume>>)),
                    Pair("networks", List(<<Str(<<"c","d","2","n">>)>>)),
                    Pair("stdin_open", PyTrue),
                    Pair("tty", PyTrue) >>)

\* lines 114-159: the chain service, or Raise
ChainService(service_config) ==
    LET image == Concat(Str(<<"c","e","s","s","l","a","b","/","c","e","s","s","-","c","h","a","i","n",":">>), Field(service_config, "network"))
        volume == Concat(Field(service_config, "configuration file"),
                         Str(<<":","/","o","p","t","/","c","e","s","s","/","d","a","t","a">>))
        chain_id == Concat(Str(<<"c","e","s","s","-">>), Field(service_config, "network"))
        name == Field(service_config, "name")
        port == Concat(Field(service_config, "port"), Str(<<":","9","9","4","4">>))
    IN  IF "raise" \in {image.t, volume.t, chain_id.t, name.t, port.t} THEN Raise
        ELSE Map(<< Pair("image", image),
                    Pair("volumes", List(<<volume>>)),
                    Pair("command", ChainCommand(chain_id)),
                    Pair("logging", ChainLogging),
                    Pair("networks", List(<<Str(<<"c","d","2","n">>)>>)),
                    Pair("container_name", name),
                    Pair("ports", List(<<port, Str(<<"3","0","3","3","6",":","3","0","3","3","6">>)>>)) >>)

\* variant of Service: a name without a case gets an empty service
ServiceWithUnsupportedKept(service_name_, service_config) ==
    CASE service_name_ = "justicar" -> JusticarService(service_config)
      [] service_name_ = "chain" -> ChainService(service_config)
      [] OTHER -> Map(<<>>)

\* lines 95-161: the match on the service name; Absent for a name without a case
Service(service_name_, service_config) ==
    CASE service_name_ = "justicar" -> JusticarService(service_config)
      [] service_name_ = "chain" -> ChainService(service_config)
      [] OTHER -> Absent

\* lines 93-94: services, filled in the order of config.items()
Services(d, h) == [i \in 1..Len(d) |-> Pair(d[i].k, Service(d[i].k, h[d[i].r]))]

\* lines 163-172: docker_compose_data
DocumentOf(services) ==
    Map(<< Pair("version", Str(<<"3",".","9">>)),
           Pair("services", MapOf(services)),
           Pair("networks",
                Map(<< Pair("cd2n", Map(<< Pair("name", Str(<<"c","d","2","n">>)),
                                           Pair("driver", Str(<<"b","r","i","d","g","e">>)) >>)) >>)) >>)

\* docker_compose_data, or Raise when building a service raised
Document(d, h) ==
    LET services == Services(d, h)
    IN  IF \E i \in 1..Len(d) : services[i].items[1].t = "raise" THEN Raise
        ELSE DocumentOf(services)

\* lines 173-174: what open(path, "w") and yaml.safe_dump leave on disk.
\* io = "ok": the document is written; "open": open fails, the file is as it
\* was; "write": the file was truncated and the write failed
Written(f, doc, io) ==
    CASE io = "ok" -> [exists |-> TRUE, data |-> doc]
      [] io = "open" -> f
      [] io = "write" -> [exists |-> TRUE, data |-> PyNone]

IoOutcomes == {"ok", "open", "write"}

\* the file after save_config_to_docker_compose(d), and how the call ended
save_config_to_docker_compose(f, d, h, io) ==
    LET doc == Document(d, h)
    IN  IF doc.t = "raise" THEN [file |-> f, result |-> "TypeError"]
        ELSE [file |-> Written(f, doc, io),
              result |-> IF io = "ok" THEN "ok" ELSE "OSError"]

----------------------------------------------------------------------------
(* Bounds and inputs *)

\* longest text of a record field handed to the writer
MaxLen == 1

\* user actions in one session
MaxActions == 5

Alphabet == {"7", ":"}

RECURSIVE TextsOfLen(_)
TextsOfLen(n) ==
    IF n = 0 THEN {<<>>}
    ELSE {Append(t, c) : t \in TextsOfLen(n - 1), c \in Alphabet}

Texts == UNION {TextsOfLen(n) : n \in 0..MaxLen}

\* what the user types into an Input widget
TypedTexts == {<<"7">>, <<"8",":","8">>}

Missing == [exists |-> FALSE, data |-> PyNone]

FileOf(data) == [exists |-> TRUE, data |-> data]

\* a file of zero bytes: yaml.safe_load returns None
EmptyFile == FileOf(PyNone)

\* a file yaml.safe_load cannot parse
InvalidFile == FileOf(Val("invalid", "", <<>>, <<>>))

\* a mapping without the key services
NoServicesFile == FileOf(Map(<< Pair("version", Str(<<"3",".","9">>)) >>))

Entry(ports, volumes, name, image) ==
    MapOf(<< Pair("image", image), Pair("container_name", name),
             Pair("ports", ports), Pair("volumes", volumes) >>)

NormalJusticar ==
    Entry(List(<<Str(<<"8","0","8","0",":","1","3","0","9">>)>>), List(<<Str(<<"/","d","a","t","a","/","j",":","/","o","p","t","/","j","u","s","t","i","c","a","r","/","b","a","c","k","u","p","s">>)>>),
          Str(<<"w","o","r","k","e","r">>), Str(<<"c","d","n",":","l","a","t","e","s","t">>))

NormalChain ==
    Entry(List(<<Str(<<"9","9","5","5",":","9","9","4","4">>), Str(<<"3","0","3","3","6",":","3","0","3","3","6">>)>>),
          List(<<Str(<<"/","d","a","t","a","/","c",":","/","o","p","t","/","c","e","s","s","/","d","a","t","a">>)>>),
          Str(<<"n","o","d","e">>), Str(<<"c","e","s","s","l","a","b","/","c","e","s","s","-","c","h","a","i","n",":","m","a","i","n","n","e","t">>))

PortsChoices ==
    {Absent, List(<<>>), List(<<Str(<<"7",":","1","3","0","9">>)>>), List(<<PyInt(<<"8","0","8","0">>)>>),
     Str(<<"8","0",":","1">>), Str(<<>>), Map(<<>>), PyNone}

VolumesChoices ==
    {Absent, List(<<>>), List(<<Str(<<"/","d",":","/","o","p","t">>)>>), Str(<<"/","d">>), PyNone}

NameChoices == {Absent, Str(<<"j","j">>), PyInt(<<"5">>)}

ImageChoices == {Absent, Str(<<"x",":","m","a","i","n">>), Str(<<"n","o","c">>), PyNone}

Entries ==
    {Entry(p, v, n, i) : p \in PortsChoices, v \in VolumesChoices,
                         n \in NameChoices, i \in ImageChoices} \cup {PyNone}

ServicesFile(pairs) ==
    FileOf(Map(<< Pair("version", Str(<<"3",".","9">>)), Pair("services", Map(pairs)) >>))

\* the files the loader is tried on
FileInputs ==
    {Missing, EmptyFile, InvalidFile, NoServicesFile,
     FileOf(List(<<Str(<<"a">>)>>)),
     FileOf(Map(<< Pair("services", PyNone) >>)),
     ServicesFile(<< Pair("justicar", NormalJusticar) >>),
     ServicesFile(<< Pair("chain", NormalChain) >>)}
    \cup {ServicesFile(<< Pair("justicar", e), Pair("chain", NormalChain) >>) :
            e \in Entries}
    \cup {ServicesFile(<< Pair("justicar", NormalJusticar), Pair("chain", e) >>) :
            e \in Entries}
    \cup {ServicesFile(<< Pair("extra", Map(<<>>)), Pair("chain", e),
                          Pair("justicar", NormalJusticar) >>) : e \in Entries}

\* services in another order, with a key the program does not know
ReversedExtraFile ==
    ServicesFile(<< Pair("extra", Map(<<>>)), Pair("chain", NormalChain),
                    Pair("justicar", NormalJusticar) >>)

\* the files a session starts from
SessionFiles ==
    {Missing, EmptyFile, InvalidFile, NoServicesFile, ReversedExtraFile,
     ServicesFile(<< Pair("justicar", NormalJusticar), Pair("chain", NormalChain) >>),
     ServicesFile(<< Pair("chain", NormalChain) >>),
     ServicesFile(<< Pair("justicar",
                          Entry(List(<<>>), List(<<Str(<<"/","d",":","/","o","p","t">>)>>), Absent, Absent)),
                     Pair("chain", NormalChain) >>),
     ServicesFile(<< Pair("justicar", NormalJusticar),
                     Pair("chain",
                          Entry(List(<<Str(<<"7",":","9","9","4","4">>)>>), Map(<<>>), PyInt(<<"5">>),
                                Str(<<"x",":","m","a","i","n">>))) >>)}

JusticarRecords(T) ==
    {("port" :> Str(p)) @@ ("configuration file" :> Str(c)) @@ ("name" :> Str(n)) :
        p \in T, c \in T, n \in T}

ChainRecords(T) ==
    {("port" :> Str(p)) @@ ("configuration file" :> Str(c)) @@ ("name" :> Str(n))
        @@ ("network" :> Str(w)) :
        p \in T, c \in T, n \in T, w \in T}

\* the record of a service the writer has no case for
ThirdRecord == ("name" :> Str(<<"t","h","i","r","d">>))

RecordFor(k, jr, cr) ==
    CASE k = "justicar" -> jr [] k = "chain" -> cr [] OTHER -> ThirdRecord

RECURSIVE ModelOf(_, _, _, _, _)
\* the dict with the keys `keys`, its records allocated in h
ModelOf(keys, jr, cr, d, h) ==
    IF Len(d) = Len(keys) THEN [config |-> d, heap |-> h]
    ELSE LET k == keys[Len(d) + 1]
         IN  ModelOf(keys, jr, cr, Append(d, [k |-> k, r |-> NewRef(h)]),
                     Alloc(h, RecordFor(k, jr, cr)))

FixedKeys == {<<"justicar", "chain">>, <<"chain", "justicar">>}

OtherKeys ==
    {<<"justicar", "chain", "third">>, <<"third", "justicar", "chain">>,
     <<"justicar">>, <<"chain", "third">>, <<"third">>, <<>>}

OtherJusticar ==
    ("port" :> Str(<<"7">>)) @@ ("configuration file" :> Str(<<"/","d">>)) @@
    ("name" :> Str(<<"w">>))

OtherChain ==
    ("port" :> Str(<<"7">>)) @@ ("configuration file" :> Str(<<"/","d">>)) @@
    ("name" :> Str(<<"n">>)) @@ ("network" :> Str(<<"m","a","i","n","n","e","t">>))

\* the models the writer is tried on: one record takes every combination of
\* the texts T while the other holds the defaults, under the fixed keys; and
\* two records under the other key sets
ModelInputs(T) ==
    {ModelOf(ks, jr, DefaultChain, <<>>, InitialHeap) :
        ks \in FixedKeys, jr \in JusticarRecords(T)}
    \cup {ModelOf(ks, DefaultJusticar, cr, <<>>, InitialHeap) :
        ks \in FixedKeys, cr \in ChainRecords(T)}
    \cup {ModelOf(ks, jr, cr, <<>>, InitialHeap) :
        ks \in OtherKeys, jr \in {DefaultJusticar, OtherJusticar},
        cr \in {DefaultChain, OtherChain}}

----------------------------------------------------------------------------
(* The application: CD2N, MainMenu, ConfigScreen *)

NoPending == [k |-> "", fields |-> <<>>]

\* the objects something still refers to
Roots(d, cur, a) == Refs(DEFAULT_CONFIG) \cup Refs(d) \cup {cur} \cup Refs(a)

NoScreen ==
    /\ service_name' = ""
    /\ current_config' = 0
    /\ input_fields' = <<>>

Init ==
    /\ file \in SessionFiles
    /\ heap = InitialHeap
    /\ config = <<>>
    /\ pc = "constructed"
    /\ service_name = ""
    /\ current_config = 0
    /\ input_fields = <<>>
    /\ arg = <<>>
    /\ last_action = "none"
    /\ last_save = "none"
    /\ pending = NoPending
    /\ actions = 0

\* CD2N.on_mount
on_mount ==
    /\ pc = "constructed"
    /\ \E res \in {load_config_from_docker_compose(file, heap)} :
           /\ config' = res.config
           /\ heap' = Collect(res.heap, Roots(res.config, current_config, arg))
    /\ pc' = "mounted"
    /\ last_action' = "on_mount"
    /\ UNCHANGED <<file, service_name, current_config, input_fields, arg,
                   last_save, pending, actions>>

\* CD2N.on_ready
on_ready ==
    /\ pc = "mounted"
    /\ pc' = "MainMenu"
    /\ last_action' = "on_ready"
    /\ UNCHANGED <<file, heap, config, service_name, current_config, input_fields,
                   arg, last_save, pending, actions>>

UserActs ==
    /\ actions < MaxActions
    /\ actions' = actions + 1

\* ConfigScreen.__init__, line 192: config[service_name].copy()
ScratchCopy(h, d, k) == [heap |-> Alloc(h, h[Ref(d, k)]), ref |-> NewRef(h)]

\* MainMenu.on_button_pressed, a "<service>_btn" button: ConfigScreen.__init__
\* and ConfigScreen.compose
select(k) ==
    /\ pc = "MainMenu"
    /\ k \in KeySet(config)
    /\ UserActs
    /\ \E scratch \in {ScratchCopy(heap, config, k)} :
           /\ heap' = scratch.heap
           /\ current_config' = scratch.ref
           /\ input_fields' = [f \in DOMAIN scratch.heap[scratch.ref] |->
                                  PyStr(scratch.heap[scratch.ref][f])]
    /\ service_name' = k
    /\ pc' = "ConfigScreen"
    /\ last_action' = "select"
    /\ UNCHANGED <<file, config, arg, last_save, pending>>

\* the user types into the Input widget of a field
edit_input(f, text) ==
    /\ pc = "ConfigScreen"
    /\ f \in DOMAIN input_fields
    /\ input_fields[f] # text
    /\ UserActs
    /\ input_fields' = [input_fields EXCEPT ![f] = text]
    /\ last_action' = "edit_input"
    /\ UNCHANGED <<file, heap, config, pc, service_name, current_config, arg,
                   last_save, pending>>

\* ConfigScreen.action_go_back (escape, or the cancel button)
action_go_back ==
    /\ pc = "ConfigScreen"
    /\ UserActs
    /\ NoScreen
    /\ heap' = Collect(heap, Roots(config, 0, arg))
    /\ pc' = "MainMenu"
    /\ last_action' = "cancel"
    /\ UNCHANGED <<file, config, arg, last_save, pending>>

\* lines 231-232: the scratch dict takes the text of every Input
WithInputs(rec, inputs) ==
    [f \in DOMAIN rec \cup DOMAIN inputs |->
        IF f \in DOMAIN inputs THEN Str(inputs[f]) ELSE rec[f]]

\* How the session goes on when an exception leaves a handler is decided by
\* Textual, outside the repository: it ends, or it stays on the screen.
AfterException == {"continues", "exits"}

\* lines 235-236, as (config, heap) at the call of the writer
CommitUpdate(h, d, k, cur, inputs) ==
    [config |-> SetItem(d, k, cur),
     heap |-> [h EXCEPT ![cur] = WithInputs(h[cur], inputs)]]

\* variant of SavedConfig: the edited service alone
SavedOnlyEdited(d, k) == SelectSeq(d, LAMBDA e : e.k = k)

\* what the writer is called on: line 236 hands it self.app.config
SavedConfig(d, k) == d

\* variant of AfterSave: the update is undone when the writer raises
RolledBackWhenSaveRaises(result, before, updated) ==
    IF result = "ok" THEN updated ELSE before

\* lines 235-237: the update is made before the writer is called, so it stays
\* when the writer raises
AfterSave(result, before, updated) == updated

\* ConfigScreen.action_save_config (ctrl+s, or the save button)
action_save_config(io, after) ==
    /\ pc = "ConfigScreen"
    /\ UserActs
    /\ \E updated \in {CommitUpdate(heap, config, service_name, current_config,
                                    input_fields)} :
       \E res \in {save_config_to_docker_compose(
                       file, SavedConfig(updated.config, service_name),
                       updated.heap, io)} :
       \E final \in {AfterSave(res.result, [config |-> config, heap |-> heap],
                               updated)} :
           /\ file' = res.file
           /\ last_save' = res.result
           /\ config' = final.config
           /\ IF res.result = "ok"
              THEN /\ NoScreen
                   /\ heap' = Collect(final.heap, Roots(final.config, 0, arg))
                   /\ pc' = "MainMenu"
                   /\ pending' = IF pending.k = service_name THEN NoPending ELSE pending
              ELSE /\ heap' = Collect(final.heap,
                                      Roots(final.config, current_config, arg))
                   /\ pc' = IF after = "exits" THEN "exited" ELSE pc
                   /\ pending' = [k |-> service_name,
                                  fields |-> WithInputs(heap[current_config],
                                                        input_fields)]
                   /\ UNCHANGED <<service_name, current_config, input_fields>>
    /\ last_action' = "commit"
    /\ UNCHANGED arg

\* MainMenu.on_button_pressed, the run_compose button
run_compose(io, after) ==
    /\ pc = "MainMenu"
    /\ UserActs
    /\ \E res \in {save_config_to_docker_compose(file, config, heap, io)} :
           /\ file' = res.file
           /\ last_save' = res.result
           /\ pc' = IF res.result # "ok" /\ after = "exits" THEN "exited" ELSE pc
    /\ last_action' = "run"
    /\ UNCHANGED <<heap, config, service_name, current_config, input_fields, arg,
                   pending>>

\* MainMenu's quit binding
quit ==
    /\ pc = "MainMenu"
    /\ UserActs
    /\ pc' = "exited"
    /\ last_action' = "quit"
    /\ UNCHANGED <<file, heap, config, service_name, current_config, input_fields,
                   arg, last_save, pending>>

Next ==
    \/ on_mount
    \/ on_ready
    \/ \E k \in {"justicar", "chain"} : select(k)
    \/ \E f \in {"port", "configuration file", "name", "network"}, text \in TypedTexts :
          edit_input(f, text)
    \/ action_go_back
    \/ \E io \in IoOutcomes, after \in AfterException : action_save_config(io, after)
    \/ \E io \in IoOutcomes, after \in AfterException : run_compose(io, after)
    \/ quit

Spec == Init /\ [][Next]_vars

----------------------------------------------------------------------------
(* The loader and the writer called directly *)

CodecInit ==
    /\ \/ /\ file \in FileInputs
          /\ heap = InitialHeap
          /\ arg = <<>>
          /\ pc = "call_load"
       \/ \E m \in ModelInputs(Texts) :
          /\ file \in {Missing, NoServicesFile}
          /\ heap = m.heap
          /\ arg = m.config
          /\ pc = "call_save"
    /\ config = <<>>
    /\ service_name = ""
    /\ current_config = 0
    /\ input_fields = <<>>
    /\ last_action = "none"
    /\ last_save = "none"
    /\ pending = NoPending
    /\ actions = 0

\* save_config_to_docker_compose(arg, path)
call_save(io) ==
    /\ pc = "call_save"
    /\ \E res \in {save_config_to_docker_compose(file, arg, heap, io)} :
           /\ file' = res.file
           /\ last_save' = res.result
    /\ pc' = "saved"
    /\ last_action' = "save"
    /\ UNCHANGED <<heap, config, service_name, current_config, input_fields, arg,
                   pending, actions>>

\* config = load_config_from_docker_compose(path)
call_load ==
    /\ pc \in {"call_load", "saved"}
    /\ \E res \in {load_config_from_docker_compose(file, heap)} :
           /\ config' = res.config
           /\ heap' = Collect(res.heap, Roots(res.config, current_config, arg))
    /\ pc' = "loaded"
    /\ last_action' = "load"
    /\ UNCHANGED <<file, service_name, current_config, input_fields, arg,
                   last_save, pending, actions>>

CodecNext ==
    \/ \E io \in IoOutcomes : call_save(io)
    \/ call_load

SpecCodec == CodecInit /\ [][CodecNext]_vars

----------------------------------------------------------------------------
(* Properties *)

FixedSet == {"justicar", "chain"}

ConfigValue == Value(config, heap)

ArgValue == Value(arg, heap)

\* the values DEFAULT_CONFIG is written with
DefaultValue ==
    [k \in FixedSet |-> IF k = "justicar" THEN DefaultJusticar ELSE DefaultChain]

StringFields(v) == \A k \in DOMAIN v : \A f \in DOMAIN v[k] : v[k][f].t = "str"

ColonFree(x) == x.t = "str" /\ \A i \in 1..Len(x.s) : x.s[i] # ":"

\* port, configuration file and network hold no ':'
SplitSafe(v) ==
    \A k \in DOMAIN v : \A f \in DOMAIN v[k] \ {"name"} : ColonFree(v[k][f])

\* load has run on the file a successful save of arg wrote, arg a model of
\* string fields under exactly the fixed keys
RoundTripped ==
    /\ pc = "loaded"
    /\ last_save = "ok"
    /\ KeySet(arg) = FixedSet
    /\ StringFields(ArgValue)

\* C1 as stated: for every model whose keys are exactly justicar and chain and
\* whose fields are strings, save followed by load returns an equal model.
C1_RoundTrip == RoundTripped => ConfigValue = ArgValue

\* C1 amended: the round trip returns an equal model when port, configuration
\* file and network hold no ':' (the name may be any string).
C1_RoundTripColonFree == RoundTripped /\ SplitSafe(ArgValue) => ConfigValue = ArgValue

C1_Witness ==
    /\ RoundTripped
    /\ SplitSafe(ArgValue)
    /\ ArgValue["chain"]["network"] = Str(<<"7">>)
    /\ ArgValue["chain"]["name"] = Str(<<":">>)
    /\ ArgValue["chain"]["port"] = Str(<<>>)

\* C2: load returns the built-in defaults when the path does not exist, when
\* the file is empty and when the file has no services key.
C2_DefaultFallback ==
    pc = "loaded" /\ file \in {Missing, EmptyFile, NoServicesFile}
        => ConfigValue = DefaultValue

\* the entry of service k in the file, when the file holds a services mapping
\* with a mapping for k
HasEntry(k) ==
    /\ file.exists
    /\ file.data.t = "map"
    /\ Get(file.data, "services", Absent).t = "map"
    /\ Get(Get(file.data, "services", Absent), k, Absent).t = "map"

EntryOf(k) == Get(Get(file.data, "services", Absent), k, Absent)

\* a value the loader can take a first host side from, or a missing key
Plain(v) ==
    \/ v.t = "absent"
    \/ v.t = "list" /\ Len(v.items) > 0 /\ v.items[1].t = "str"

\* the entry of k is well formed but for the empty sequence under `key`
EmptySequenceCase(k, key, other) ==
    /\ pc = "loaded"
    /\ HasEntry(k)
    /\ Get(EntryOf(k), key, Absent) = List(<<>>)
    /\ Plain(Get(EntryOf(k), other, Absent))
    /\ Get(EntryOf(k), "container_name", Absent).t = "str"
    /\ Get(EntryOf(k), "image", Absent).t = "absent"

\* C3: with `ports: []` (or `volumes: []`) the record's port (configuration
\* file) is the service's default and its name is still the file's.
C3_EmptySequenceSafety ==
    \A k \in FixedSet :
        /\ EmptySequenceCase(k, "ports", "volumes") =>
              /\ ConfigValue[k]["port"] = DefaultValue[k]["port"]
              /\ ConfigValue[k]["name"] = Get(EntryOf(k), "container_name", Absent)
        /\ EmptySequenceCase(k, "volumes", "ports") =>
              /\ ConfigValue[k]["configuration file"] =
                    DefaultValue[k]["configuration file"]
              /\ ConfigValue[k]["name"] = Get(EntryOf(k), "container_name", Absent)

\* C4: the edit of a commit whose save raised stays in the model, and a later
\* save that succeeds writes it (until a later commit of the same service
\* replaces it).
C4_CommitIsolatesFailure ==
    pending.k # "" =>
        /\ ConfigValue[pending.k] = pending.fields
        /\ last_save = "ok" =>
              /\ HasEntry(pending.k)
              /\ EntryOf(pending.k) = Service(pending.k, pending.fields)

C4_Witness ==
    /\ pending.k = "justicar"
    /\ pending.fields["port"] = Str(<<"7">>)
    /\ last_action = "run"
    /\ last_save = "ok"

\* C5: after load the live model changes only in a commit step, and a commit
\* from the screen of service k changes the record of no other service.
C5_OnlyCommitMutates ==
    [][pc # "constructed" /\ ConfigValue' # ConfigValue =>
          /\ pc = "ConfigScreen"
          /\ last_action' = "commit"
          /\ DOMAIN ConfigValue' = DOMAIN ConfigValue
          /\ \A k \in DOMAIN ConfigValue \ {service_name} :
                ConfigValue'[k] = ConfigValue[k]]_vars

C5_Witness ==
    /\ last_action = "commit"
    /\ KeySet(config) = FixedSet
    /\ ConfigValue["justicar"] = DefaultJusticar
    /\ ConfigValue["chain"] = [DefaultChain EXCEPT !["port"] = Str(<<"8",":","8">>)]

\* C6: for every model the session holds, save raises only when writing the
\* file fails.
C6_SaveFailsOnlyOnIO ==
    /\ last_save # "TypeError"
    /\ pc \in {"mounted", "MainMenu", "ConfigScreen"} =>
          Document(config, heap).t # "raise"

\* C7: once loaded, the live model's key sequence is [justicar, chain].
C7_KeyOrder == pc # "constructed" => Keys(config) = <<"justicar", "chain">>

C7_Witness ==
    /\ file = ReversedExtraFile
    /\ last_action = "commit"
    /\ pending.k = "justicar"
    /\ Keys(config) = <<"justicar", "chain">>

\* the services of arg the writer has a case for, in arg's order
SupportedKeys(d) == SelectSeq(Keys(d), LAMBDA k : k \in FixedSet)

\* C8: save skips a key outside the fixed set without raising; the document's
\* services are the supported ones and its networks hold cd2n (bridge) alone,
\* whichever services the model holds.
C8_UnsupportedKeySkip ==
    pc = "saved" =>
        /\ last_save # "TypeError"
        /\ last_save = "ok" =>
              /\ MapKeys(Get(file.data, "services", Absent)) = SupportedKeys(arg)
              /\ Get(file.data, "networks", Absent) =
                    Map(<< Pair("cd2n", Map(<< Pair("name", Str(<<"c","d","2","n">>)),
                                               Pair("driver", Str(<<"b","r","i","d","g","e">>)) >>)) >>)

C8_Witness ==
    /\ pc = "saved"
    /\ last_save = "ok"
    /\ Keys(arg) = <<"justicar", "chain", "third">>
    /\ MapKeys(Get(file.data, "services", Absent)) = <<"justicar", "chain">>

\* C9: the loaded model shares no record with DEFAULT_CONFIG, and the records
\* of DEFAULT_CONFIG hold their original values.
C9_NoSharedState ==
    pc # "constructed" =>
        /\ Refs(config) \cap Refs(DEFAULT_CONFIG) = {}
        /\ Value(DEFAULT_CONFIG, heap) = DefaultValue

\* the records of DEFAULT_CONFIG hold the values they were written with
TemplateIntact == Value(DEFAULT_CONFIG, heap) = DefaultValue

\* C10: while the last save succeeded, the file is the writer's rendering of
\* the whole live model.
C10_FileFollowsModel ==
    last_save = "ok" => file = FileOf(Document(config, heap))

C10_Witness ==
    /\ last_save = "ok"
    /\ last_action = "commit"
    /\ ConfigValue["justicar"]["port"] = Str(<<"7">>)
    /\ ConfigValue["chain"]["name"] = Str(<<"n","o","d","e">>)
    /\ HasEntry("chain")
    /\ EntryOf("chain") = Service("chain", ConfigValue["chain"])

====
